---- MODULE Spec2Model ----
(***************************************************************************)
(* A model of train.py (MHC class I binding prediction): the amino-acid    *)
(* pair index, the peptide/MHC index encoder of generate_training_data,    *)
(* encode_inputs / encode_pairwise_coefficients, TwoPassRegressor and the  *)
(* cross_validation refinement loop.                                       *)
(*                                                                         *)
(* Conventions.  A letter is its code point ('A' = 65), so that sorted()   *)
(* is computed; a string is a sequence of code points.  Python sequences   *)
(* are 0-based; TLA+ sequences are 1-based, and the operators below add    *)
(* the 1 where they index.  A real number is an integer where the code     *)
(* only adds and multiplies it, and a pair <<num, den>> where it divides.  *)
(* The fits of scikit-learn (Ridge, RidgeCV, RandomForestClassifier) are   *)
(* outside the repository: the values they return are chosen from small    *)
(* sets, the arguments they are called with are recorded.                  *)
(***************************************************************************)
EXTENDS Integers, Sequences, FiniteSets, TLC

VARIABLES
    \* module load: a lookup in the pair tables
    q_a, q_b, q_idx, q_back, q_pc,
    \* generate_training_data
    binding_data, df_peptides, peptide_idx, X, Y, W, gen_pc,
    \* encode_inputs / encode_pairwise_coefficients
    X_pair_indices, pairwise_feature_vec, model_weights, X_encoded, enc_pc,
    coeffs, pw_pc,
    \* TwoPassRegressor
    tp_Y, first_pass, regressors, tp_categories, combined, tp_pc,
    \* cross_validation
    n_samples, n_splits, split_idx, test_start, test_stop,
    X_train_idx, X_test_idx, Y_train, Y_test, W_train, W_test,
    coeff_vec, iter, coef_, fit_call, engine_call, split_error, errors,
    cv_result, cv_pc, n_fit, n_reest, folds

indexVars == <<q_a, q_b, q_idx, q_back, q_pc>>
genVars   == <<binding_data, df_peptides, peptide_idx, X, Y, W, gen_pc>>
encVars   == <<X_pair_indices, pairwise_feature_vec, model_weights, X_encoded, enc_pc,
               coeffs, pw_pc>>
tpVars    == <<tp_Y, first_pass, regressors, tp_categories, combined, tp_pc>>
cvVars    == <<n_samples, n_splits, split_idx, test_start, test_stop,
               X_train_idx, X_test_idx, Y_train, Y_test, W_train, W_test,
               coeff_vec, iter, coef_, fit_call, engine_call, split_error, errors,
               cv_result, cv_pc, n_fit, n_reest, folds>>
vars      == <<indexVars, genVars, encVars, tpVars, cvVars>>

\* What an operation of one part leaves alone: the variables of the other parts
notOfIndex   == <<genVars, encVars, tpVars, cvVars>>
notOfGen     == <<indexVars, encVars, tpVars, cvVars>>
notOfEnc     == <<indexVars, genVars, tpVars, cvVars>>
notOfTwoPass == <<indexVars, genVars, encVars, cvVars>>
notOfCV      == <<indexVars, genVars, encVars, tpVars>>

(***************************************************************************)
(* Generic helpers                                                         *)
(***************************************************************************)
Max(a, b) == IF a >= b THEN a ELSE b
Min(a, b) == IF a <= b THEN a ELSE b
Abs(a) == IF a < 0 THEN -a ELSE a

RemoveAt(s, i) == [k \in 1..(Len(s) - 1) |-> IF k < i THEN s[k] ELSE s[k + 1]]

RECURSIVE SumSeq(_)
SumSeq(s) == IF s = <<>> THEN 0 ELSE Head(s) + SumSeq(Tail(s))

\* Python's sorted() on a list of integers: ascending, duplicates kept.
RECURSIVE sorted(_)
sorted(s) ==
    IF s = <<>> THEN <<>>
    ELSE LET i == CHOOSE i \in 1..Len(s) : \A j \in 1..Len(s) : s[i] <= s[j]
         IN  <<s[i]>> \o sorted(RemoveAt(s, i))

(***************************************************************************)
(* The alphabet and the pair index (module load)                           *)
(***************************************************************************)
\* The literal list of train.py, as code points: G P A V L I M C F Y W H K R Q N E D S T
LETTER_LIST == <<71, 80, 65, 86, 76, 73, 77, 67, 70, 89, 87, 72, 75, 82, 81, 78, 69, 68, 83, 84>>

AMINO_ACID_LETTERS == sorted(LETTER_LIST)

\* "%s%s" % (x, y); the faulty variant formats x twice
PairStringSameLetter(x, y) == <<x, x>>
PairString(x, y) == <<x, y>>

\* ["%s%s" % (x,y) for y in LETTERS for x in LETTERS]: y is the outer loop
RECURSIVE PairsForY(_, _)
PairsForY(xs, y) ==
    IF xs = <<>> THEN <<>>
    ELSE <<PairString(Head(xs), y)>> \o PairsForY(Tail(xs), y)

RECURSIVE PairsComprehension(_, _)
PairsComprehension(ys, xs) ==
    IF ys = <<>> THEN <<>>
    ELSE PairsForY(xs, Head(ys)) \o PairsComprehension(Tail(ys), xs)

AMINO_ACID_PAIRS == PairsComprehension(AMINO_ACID_LETTERS, AMINO_ACID_LETTERS)

\* dict((y, x) for x, y in enumerate(AMINO_ACID_PAIRS)): a later entry of the
\* list overwrites an earlier one with the same key.
AMINO_ACID_PAIR_POSITIONS ==
    [s \in {AMINO_ACID_PAIRS[i] : i \in 1..Len(AMINO_ACID_PAIRS)} |->
        (CHOOSE i \in 1..Len(AMINO_ACID_PAIRS) :
            /\ AMINO_ACID_PAIRS[i] = s
            /\ \A j \in 1..Len(AMINO_ACID_PAIRS) : AMINO_ACID_PAIRS[j] = s => j <= i) - 1]

\* AMINO_ACID_PAIR_POSITIONS[a + b], defined for the keys the dict holds (HasPair);
\* the callers raise KeyError for the others
HasPair(a, b) == <<a, b>> \in DOMAIN AMINO_ACID_PAIR_POSITIONS
PairLookup(a, b) == AMINO_ACID_PAIR_POSITIONS[<<a, b>>]

\* AMINO_ACID_PAIRS[i], the list read at a 0-based index
PairAt(i) == AMINO_ACID_PAIRS[i + 1]

\* The letters a lookup is tried with: the alphabet and 'X', which is not in it
QueryLetters == {AMINO_ACID_LETTERS[i] : i \in 1..Len(AMINO_ACID_LETTERS)} \cup {88}

IndexIdle == q_a = 0 /\ q_b = 0 /\ q_idx = 0 /\ q_back = <<>> /\ q_pc = "idle"

InitIndexQuery ==
    /\ q_a \in QueryLetters
    /\ q_b \in QueryLetters
    /\ q_idx = 0
    /\ q_back = <<>>
    /\ q_pc = "query"

\* pairIndex: the lookup of the two-letter key, which raises KeyError on a
\* key the dict does not hold
LookupPair ==
    /\ UNCHANGED notOfIndex
    /\ q_pc = "query"
    /\ IF HasPair(q_a, q_b)
       THEN q_idx' = PairLookup(q_a, q_b) /\ q_pc' = "found"
       ELSE q_idx' = q_idx /\ q_pc' = "KeyError"
    /\ UNCHANGED <<q_a, q_b, q_back>>

\* indexToPair: the list read back at the index found
LookupIndex ==
    /\ UNCHANGED notOfIndex
    /\ q_pc = "found"
    /\ q_back' = PairAt(q_idx)
    /\ q_pc' = "done"
    /\ UNCHANGED <<q_a, q_b, q_idx>>

(***************************************************************************)
(* generate_training_data                                                  *)
(***************************************************************************)
\* Bound: the number of rows of the binding-data table
MaxPeptides == 2

\* Allele names after the '*' is removed: "A0201", "B0702", "C0401"
A0201 == <<65, 48, 50, 48, 49>>
B0702 == <<66, 48, 55, 48, 50>>
C0401 == <<67, 48, 52, 48, 49>>

\* The MHC table (Allele, Residues): "YFA" for A0201, "HN" for B0702; C0401 has
\* no row.
df_mhc == << [Allele |-> A0201, Residues |-> <<89, 70, 65>>],
             [Allele |-> B0702, Residues |-> <<72, 78>>] >>

\* Epitopes: SLYNTVATL, GILGFVFTL, SLYNTVATLYCV (12 letters), SLXNTVATL ('X')
EpitopeChoices == { <<83, 76, 89, 78, 84, 86, 65, 84, 76>>,
                    <<71, 73, 76, 71, 70, 86, 70, 84, 76>>,
                    <<83, 76, 89, 78, 84, 86, 65, 84, 76, 89, 67, 86>>,
                    <<83, 76, 88, 78, 84, 86, 65, 84, 76>> }
AlleleChoices == {A0201, B0702, C0401}
IC50Choices == {100, 500, 2000000}

PeptideRows == [Allele : AlleleChoices, Epitope : EpitopeChoices, IC50 : IC50Choices]

RECURSIVE TablesUpTo(_)
TablesUpTo(n) ==
    IF n = 0 THEN {<<>>}
    ELSE LET shorter == TablesUpTo(n - 1)
         IN  shorter \cup {Append(t, r) : t \in {u \in shorter : Len(u) = n - 1},
                                          r \in PeptideRows}

IC50_LIMIT == 1000000

\* mask = (len(Epitope) == 9) & (IC50 <= 10**6); df_peptides[mask]
RECURSIVE MaskRows(_)
MaskRows(df) ==
    IF df = <<>> THEN <<>>
    ELSE (IF Len(Head(df).Epitope) = 9 /\ Head(df).IC50 <= IC50_LIMIT
          THEN <<Head(df)>> ELSE <<>>) \o MaskRows(Tail(df))

\* Lexicographic order of two strings, as pandas sorts the group keys
RECURSIVE StrLess(_, _)
StrLess(s, t) ==
    IF t = <<>> THEN FALSE
    ELSE IF s = <<>> THEN TRUE
    ELSE IF Head(s) # Head(t) THEN Head(s) < Head(t)
    ELSE StrLess(Tail(s), Tail(t))

KeyLess(k1, k2) == StrLess(k1[1], k2[1]) \/ (k1[1] = k2[1] /\ StrLess(k1[2], k2[2]))

RECURSIVE SortKeys(_)
SortKeys(K) ==
    IF K = {} THEN <<>>
    ELSE LET m == CHOOSE k \in K : \A o \in K \ {k} : KeyLess(k, o)
         IN  <<m>> \o SortKeys(K \ {m})

RECURSIVE GroupValues(_, _)
GroupValues(df, key) ==
    IF df = <<>> THEN <<>>
    ELSE (IF <<Head(df).Allele, Head(df).Epitope>> = key
          THEN <<Head(df).IC50>> ELSE <<>>) \o GroupValues(Tail(df), key)

\* The median of a non-empty list: the middle value, or the mean of the two
\* middle values (every IC50 of IC50Choices is even, and so is every sum).
Median(vals) ==
    LET s == sorted(vals)
        n == Len(s)
    IN  IF n % 2 = 1 THEN s[(n + 1) \div 2]
        ELSE (s[n \div 2] + s[n \div 2 + 1]) \div 2

\* df_peptides.groupby(['MHC Allele', 'Epitope'])['IC50'].median().reset_index():
\* one row per key, in the order of the sorted keys
GroupMedian(df) ==
    LET keys == SortKeys({<<df[i].Allele, df[i].Epitope>> : i \in 1..Len(df)})
    IN  [k \in 1..Len(keys) |->
            [Allele |-> keys[k][1], Epitope |-> keys[k][2],
             IC50 |-> Median(GroupValues(df, keys[k]))]]

\* mhc_seqs_dict: the loop over zip(mhc_alleles, mhc_seqs), the last row of an
\* allele kept
mhc_seqs_dict ==
    [a \in {df_mhc[i].Allele : i \in 1..Len(df_mhc)} |->
        df_mhc[CHOOSE i \in 1..Len(df_mhc) :
                  /\ df_mhc[i].Allele = a
                  /\ \A j \in 1..Len(df_mhc) : df_mhc[j].Allele = a => j <= i].Residues]

\* s[start:stop] for 0 <= start, 0 <= stop: both are cut to len(s)
Slice(s, start, stop) ==
    LET a == Min(start, Len(s))
        b == Min(stop, Len(s))
    IN  [k \in 1..(b - a) |-> s[a + k]]

\* [POSITIONS[peptide_letter + mhc_letter] for mhc_letter in allele_seq], for one
\* peptide letter
RECURSIVE VecForPeptideLetter(_, _)
VecForPeptideLetter(peptide_letter, allele_seq) ==
    IF allele_seq = <<>> THEN <<>>
    ELSE <<PairLookup(peptide_letter, Head(allele_seq))>>
         \o VecForPeptideLetter(peptide_letter, Tail(allele_seq))

\* [... for peptide_letter in window for mhc_letter in allele_seq]
RECURSIVE VecOuter(_, _)
VecOuter(window, allele_seq) ==
    IF window = <<>> THEN <<>>
    ELSE VecForPeptideLetter(Head(window), allele_seq) \o VecOuter(Tail(window), allele_seq)

\* A faulty variant: the two loops exchanged (MHC letters outside)
RECURSIVE VecForMhcLetter(_, _)
VecForMhcLetter(window, mhc_letter) ==
    IF window = <<>> THEN <<>>
    ELSE <<PairLookup(Head(window), mhc_letter)>> \o VecForMhcLetter(Tail(window), mhc_letter)

RECURSIVE EncodeWindowMhcOuter(_, _)
EncodeWindowMhcOuter(window, allele_seq) ==
    IF allele_seq = <<>> THEN <<>>
    ELSE VecForMhcLetter(window, Head(allele_seq)) \o EncodeWindowMhcOuter(window, Tail(allele_seq))

EncodeWindow(window, allele_seq) == VecOuter(window, allele_seq)

\* Whether every key of the comprehension is in the dict (else KeyError)
WindowEncodable(window, allele_seq) ==
    \A i \in 1..Len(window), j \in 1..Len(allele_seq) : HasPair(window[i], allele_seq[j])

GenIdle ==
    /\ binding_data = <<>> /\ df_peptides = <<>> /\ peptide_idx = 0
    /\ X = <<>> /\ Y = <<>> /\ W = <<>> /\ gen_pc = "idle"

\* Lines 84-89: the table read from the file, names and epitopes normalised
InitGenerate ==
    /\ binding_data \in TablesUpTo(MaxPeptides)
    /\ df_peptides = binding_data
    /\ peptide_idx = 0
    /\ X = <<>> /\ Y = <<>> /\ W = <<>>
    /\ gen_pc = "loaded"

\* Lines 95-110: the mask, then one row per (allele, epitope) with the median
GenFilter ==
    /\ UNCHANGED notOfGen
    /\ gen_pc = "loaded"
    /\ df_peptides' = GroupMedian(MaskRows(df_peptides))
    /\ gen_pc' = "loop"
    /\ UNCHANGED <<binding_data, peptide_idx, X, Y, W>>

\* Lines 143-144: a row whose allele has no pseudosequence is passed over
GenSkipAllele ==
    /\ UNCHANGED notOfGen
    /\ gen_pc = "loop"
    /\ peptide_idx < Len(df_peptides)
    /\ df_peptides[peptide_idx + 1].Allele \notin DOMAIN mhc_seqs_dict
    /\ peptide_idx' = peptide_idx + 1
    /\ UNCHANGED <<binding_data, df_peptides, X, Y, W, gen_pc>>

\* Lines 145-158, the first pass of the window loop (start_pos = 0): the index
\* vector is built and appended to X, the target to Y, and the weight's
\* expression reads n_letters, a name bound nowhere: NameError.  W.append is
\* not reached, and neither is a second pass.
GenWindow ==
    /\ UNCHANGED notOfGen
    /\ gen_pc = "loop"
    /\ peptide_idx < Len(df_peptides)
    /\ df_peptides[peptide_idx + 1].Allele \in DOMAIN mhc_seqs_dict
    /\ LET row == df_peptides[peptide_idx + 1]
           allele_seq == mhc_seqs_dict[row.Allele]
           peptide == row.Epitope
           n_peptide_letters == Len(peptide)
           start_pos == 0
           stop_pos == start_pos + 9
           window == Slice(peptide, start_pos, stop_pos)
       IN  /\ start_pos < n_peptide_letters - 8
           /\ IF WindowEncodable(window, allele_seq)
              THEN /\ X' = Append(X, EncodeWindow(window, allele_seq))
                   /\ Y' = Append(Y, row.IC50)
                   /\ gen_pc' = "NameError"
              ELSE /\ UNCHANGED <<X, Y>>
                   /\ gen_pc' = "KeyError"
    /\ UNCHANGED <<binding_data, df_peptides, peptide_idx, W>>

\* Lines 160-167: the loop is over, the three arrays are returned
GenReturn ==
    /\ UNCHANGED notOfGen
    /\ gen_pc = "loop"
    /\ peptide_idx = Len(df_peptides)
    /\ Len(W) = Len(X) /\ Len(Y) = Len(X)
    /\ gen_pc' = "returned"
    /\ UNCHANGED <<binding_data, df_peptides, peptide_idx, X, Y, W>>

(***************************************************************************)
(* encode_inputs and encode_pairwise_coefficients                          *)
(***************************************************************************)
\* Bounds: the rows and columns of an index matrix
MaxRows == 2
MaxCols == 2

\* 20 * 20
N_AMINO_ACID_PAIRS == 400

PairIndices == 0..(N_AMINO_ACID_PAIRS - 1)

\* An index of a numpy array (or a list) of length len: -len..-1 count from the
\* end, anything else outside 0..len-1 raises IndexError
IndexInBounds(len, xi) == -len <= xi /\ xi < len
WrapIndex(len, xi) == IF xi < 0 THEN len + xi ELSE xi

\* The largest entry of a matrix with at least one entry (X_idx.max())
MatrixMax(M) ==
    LET entries == {M[r][c] : r \in 1..Len(M), c \in 1..Len(M[1])}
    IN  CHOOSE m \in entries : \A e \in entries : e <= m

\* encode_inputs: whether the assertion on the vector's length holds, whether
\* every read is in bounds, and the matrix returned when both do
EncodeInputsAsserts(X_idx, vec) == Len(vec) = 20 * 20
EncodeInputsInBounds(X_idx, vec) ==
    \A r \in 1..Len(X_idx) : \A c \in 1..Len(X_idx[r]) :
        IndexInBounds(Len(vec), X_idx[r][c])
\* A faulty variant reads the entry after the one the index names
encode_inputs_off_by_one(X_idx, vec) ==
    [r \in 1..Len(X_idx) |->
        [c \in 1..Len(X_idx[r]) |->
            vec[((WrapIndex(Len(vec), X_idx[r][c]) + 1) % Len(vec)) + 1]]]
encode_inputs(X_idx, vec) ==
    [r \in 1..Len(X_idx) |->
        [c \in 1..Len(X_idx[r]) |-> vec[WrapIndex(Len(vec), X_idx[r][c]) + 1]]]

\* encode_pairwise_coefficients: the two assertions, the bounds of the writes,
\* and the matrix returned
PairwiseAssertsLength(X_idx, weights) == Len(weights) = Len(X_idx[1])
PairwiseAssertsMax(X_idx, weights) == MatrixMax(X_idx) < N_AMINO_ACID_PAIRS
PairwiseInBounds(X_idx, weights) ==
    \A r \in 1..Len(X_idx) : \A c \in 1..Len(X_idx[r]) :
        IndexInBounds(N_AMINO_ACID_PAIRS, X_idx[r][c])

\* One row of coeffs: for col_idx, xi in enumerate(x): coeffs[row, xi] += weights[col_idx]
RECURSIVE ScatterRow(_, _, _, _)
ScatterRow(acc, x, weights, col_idx) ==
    IF col_idx >= Len(x) THEN acc
    ELSE ScatterRow(
            [acc EXCEPT ![WrapIndex(N_AMINO_ACID_PAIRS, x[col_idx + 1])] = @ + weights[col_idx + 1]],
            x, weights, col_idx + 1)

encode_pairwise_coefficients(X_idx, weights) ==
    [r \in 1..Len(X_idx) |->
        ScatterRow([k \in PairIndices |-> 0], X_idx[r], weights, 0)]

\* Inputs.  A coefficient vector is a list of 400 numbers (or, to reach the
\* assertion of encode_inputs, of 399); a weight vector has one number per
\* column (or one more, to reach the assertion on its length).
ValidIndexChoices == {0, 399}
BadIndexChoices == {-1, -401, 400}
VecChoices == { [k \in 1..N_AMINO_ACID_PAIRS |-> k],
                [k \in 1..N_AMINO_ACID_PAIRS |-> ((7 * k) % 11) - 5] }
ShortVec == [k \in 1..(N_AMINO_ACID_PAIRS - 1) |-> 1]
WeightChoices(d) == { [c \in 1..d |-> c], [c \in 1..d |-> IF c % 2 = 1 THEN -(c + 1) ELSE c + 2] }

Matrices(n, d, S) == [1..n -> [1..d -> S]]

EncIdle ==
    /\ X_pair_indices = <<>> /\ pairwise_feature_vec = <<>> /\ model_weights = <<>>
    /\ X_encoded = <<>> /\ enc_pc = "idle" /\ coeffs = <<>> /\ pw_pc = "idle"

\* Index matrices with every entry a pair index, conforming vectors
InitEncodeValid ==
    /\ \E n \in 1..MaxRows, d \in 1..MaxCols :
          /\ X_pair_indices \in Matrices(n, d, ValidIndexChoices)
          /\ model_weights \in WeightChoices(d)
    /\ pairwise_feature_vec \in VecChoices
    /\ X_encoded = <<>> /\ enc_pc = "ready" /\ coeffs = <<>> /\ pw_pc = "ready"

\* Index matrices with at most one entry that is no pair index, vectors that
\* conform or not
InitEncodeAny ==
    /\ \E n \in 1..MaxRows, d \in 1..MaxCols :
          /\ \E M \in Matrices(n, d, ValidIndexChoices) :
                \/ X_pair_indices = M
                \/ \E r \in 1..n, c \in 1..d, bad \in BadIndexChoices :
                      X_pair_indices = [M EXCEPT ![r][c] = bad]
          /\ model_weights \in WeightChoices(d) \cup WeightChoices(d + 1)
    /\ pairwise_feature_vec \in VecChoices \cup {ShortVec}
    /\ X_encoded = <<>> /\ enc_pc = "ready" /\ coeffs = <<>> /\ pw_pc = "ready"

\* A call of encode_inputs(X_pair_indices, pairwise_feature_vec)
CallEncodeInputs ==
    /\ UNCHANGED notOfEnc
    /\ enc_pc = "ready"
    /\ IF ~EncodeInputsAsserts(X_pair_indices, pairwise_feature_vec)
       THEN enc_pc' = "AssertionError" /\ UNCHANGED X_encoded
       ELSE IF ~EncodeInputsInBounds(X_pair_indices, pairwise_feature_vec)
       THEN enc_pc' = "IndexError" /\ UNCHANGED X_encoded
       ELSE /\ X_encoded' = encode_inputs(X_pair_indices, pairwise_feature_vec)
            /\ enc_pc' = "returned"
    /\ UNCHANGED <<X_pair_indices, pairwise_feature_vec, model_weights, coeffs, pw_pc>>

\* A call of encode_pairwise_coefficients(X_pair_indices, model_weights)
CallEncodePairwise ==
    /\ UNCHANGED notOfEnc
    /\ pw_pc = "ready"
    /\ IF ~PairwiseAssertsLength(X_pair_indices, model_weights)
          \/ ~PairwiseAssertsMax(X_pair_indices, model_weights)
       THEN pw_pc' = "AssertionError" /\ UNCHANGED coeffs
       ELSE IF ~PairwiseInBounds(X_pair_indices, model_weights)
       THEN pw_pc' = "IndexError" /\ UNCHANGED coeffs
       ELSE /\ coeffs' = encode_pairwise_coefficients(X_pair_indices, model_weights)
            /\ pw_pc' = "returned"
    /\ UNCHANGED <<X_pair_indices, pairwise_feature_vec, model_weights, X_encoded, enc_pc>>

(***************************************************************************)
(* TwoPassRegressor                                                        *)
(***************************************************************************)
\* Bounds: the training targets and the samples predicted
MaxTrain == 3
MaxTest == 2

\* A target is the fraction <<num, den>>, strictly positive.
TargetChoices == { <<1, 100>>, <<1, 50>>, <<1, 2>>, <<7, 1>>, <<50, 1>>, <<120, 1>>, <<2500, 1>> }

\* floor(log_b(num / den)) for num >= den >= 1
RECURSIVE FloorLog(_, _, _)
FloorLog(b, num, den) == IF num < b * den THEN 0 ELSE 1 + FloorLog(b, num, den * b)

\* (np.log10(Y) / np.log10(50)).astype('int'): the quotient cut towards zero.
\* The faulty variant leaves the division by log10(50) out.
TruncLog10(y) == IF y[1] >= y[2] THEN FloorLog(10, y[1], y[2]) ELSE -FloorLog(10, y[2], y[1])
TruncLog50(y) == IF y[1] >= y[2] THEN FloorLog(50, y[1], y[2]) ELSE -FloorLog(50, y[2], y[1])

\* np.maximum(0, ...) over the targets
Categories(Ys) == [i \in 1..Len(Ys) |-> Max(0, TruncLog50(Ys[i]))]

\* np.max and np.unique (ascending) of a non-empty list of integers
ListMax(s) == CHOOSE m \in {s[i] : i \in 1..Len(s)} : \A i \in 1..Len(s) : s[i] <= m
RECURSIVE SetToSortedSeq(_)
SetToSortedSeq(S) ==
    IF S = {} THEN <<>>
    ELSE LET m == CHOOSE m \in S : \A o \in S : m <= o
         IN  <<m>> \o SetToSortedSeq(S \ {m})
unique(s) == SetToSortedSeq({s[i] : i \in 1..Len(s)})

\* mask = categories == category, as the set of the rows it selects
Mask(categories, category) == {i \in 1..Len(categories) : categories[i] = category}

\* A fitted RidgeCV: the category it was fitted for and the rows it was fitted
\* on.  An entry of self.regressors is <<>> (None) or <<regressor>>.
Regressor(category, rows) == [category |-> category, rows |-> rows]

\* The loop of fit over np.unique(categories), from [None] * (max + 1)
RECURSIVE FitRegressors(_, _, _)
FitRegressors(regs, cats, todo) ==
    IF todo = <<>> THEN regs
    ELSE LET category == Head(todo)
         IN  FitRegressors(
                [regs EXCEPT ![category + 1] = <<Regressor(category, Mask(cats, category))>>],
                cats, Tail(todo))

\* The loop of predict over np.unique(categories): combined[mask] = pred, where
\* an entry of combined is <<>> (the zero it starts with) or the regressor whose
\* prediction was written there
RECURSIVE PredictLoop(_, _, _, _)
PredictLoop(comb, regs, cats, todo) ==
    IF todo = <<>> THEN comb
    ELSE LET category == Head(todo)
             mask == Mask(cats, category)
         IN  PredictLoop(
                [i \in 1..Len(comb) |-> IF i \in mask THEN regs[category + 1] ELSE comb[i]],
                regs, cats, Tail(todo))

TPIdle ==
    /\ tp_Y = <<>> /\ first_pass = {} /\ regressors = <<>>
    /\ tp_categories = <<>> /\ combined = <<>> /\ tp_pc = "idle"

InitTwoPass ==
    /\ \E n \in 1..MaxTrain : tp_Y \in [1..n -> TargetChoices]
    /\ first_pass = {} /\ regressors = <<>>
    /\ tp_categories = <<>> /\ combined = <<>> /\ tp_pc = "new"

\* TwoPassRegressor.fit: the classifier is fitted on the categories (the classes
\* it knows are those that occur), then one regressor per category that occurs
TwoPassFit ==
    /\ UNCHANGED notOfTwoPass
    /\ tp_pc = "new"
    /\ LET categories == Categories(tp_Y)
       IN  /\ first_pass' = {categories[i] : i \in 1..Len(categories)}
           /\ regressors' = FitRegressors([k \in 1..(ListMax(categories) + 1) |-> <<>>],
                                          categories, unique(categories))
    /\ tp_pc' = "fitted"
    /\ UNCHANGED <<tp_Y, tp_categories, combined>>

\* TwoPassRegressor.predict on 1..MaxTest samples: the classifier answers with
\* classes it was fitted on; a category whose regressor is None raises
\* AttributeError
TwoPassPredict ==
    /\ UNCHANGED notOfTwoPass
    /\ tp_pc = "fitted"
    /\ \E m \in 1..MaxTest : \E cats \in [1..m -> first_pass] :
          /\ tp_categories' = cats
          /\ IF \E i \in 1..m : cats[i] + 1 > Len(regressors) \/ regressors[cats[i] + 1] = <<>>
             THEN combined' = combined /\ tp_pc' = "AttributeError"
             ELSE /\ combined' = PredictLoop([i \in 1..m |-> <<>>], regressors, cats, unique(cats))
                  /\ tp_pc' = "predicted"
    /\ UNCHANGED <<tp_Y, first_pass, regressors>>

(***************************************************************************)
(* cross_validation                                                        *)
(***************************************************************************)
\* Bounds: the samples and the folds
MaxSamples == 4
MaxSplits == 3

n_iters == 5

\* The data set of n samples: rows of two pair indices, targets (IC50) and
\* sample weights, all different from one sample to the next
SampleRows == << <<5, 21>>, <<42, 112>>, <<79, 203>>, <<116, 294>>, <<153, 385>>, <<190, 76>> >>
SampleTargets == <<100, 900, 20, 5000, 350, 60000>>
SampleWeights == <<1, 2, 1, 3, 2, 4>>

X_idx == SubSeq(SampleRows, 1, n_samples)
Y_all == SubSeq(SampleTargets, 1, n_samples)
W_all == SubSeq(SampleWeights, 1, n_samples)

\* split(data, start, stop): np.concatenate / np.vstack of the two ends, and the
\* middle
split(data, start, stop) ==
    [train |-> Slice(data, 0, start) \o Slice(data, stop, Len(data)),
     test |-> Slice(data, start, stop)]

\* The reference table of pmbec.read_coefficients(), one number per pair (the
\* library is outside the repository: any total table will do)
pmbec_coeff == [p \in DOMAIN AMINO_ACID_PAIR_POSITIONS |-> ((3 * p[1] + p[2]) % 7) - 3]

\* feature_dictionary_to_vector: vec[POSITIONS[pair]] = value for every item,
\* and the assertion that no entry is left None
feature_dictionary_to_vector(dictionary) ==
    [k \in 1..Len(AMINO_ACID_PAIRS) |->
        dictionary[CHOOSE p \in DOMAIN dictionary : AMINO_ACID_PAIR_POSITIONS[p] = k - 1]]

pmbec_coeff_vec == feature_dictionary_to_vector(pmbec_coeff)

\* np.log on a positive integer, cut to its integer part: the table holds
\* ceil(e^k) for k = 0..14, and floor(ln y) is the last k with ceil(e^k) <= y
EXP_TABLE == <<1, 3, 8, 21, 55, 149, 404, 1097, 2981, 8104, 22027, 59875, 162755, 442414, 1202605>>
np_log(y) == Cardinality({k \in 1..Len(EXP_TABLE) : EXP_TABLE[k] <= y}) - 1
LogTargets(Ys) == [i \in 1..Len(Ys) |-> np_log(Ys[i])]

\* What the fitted models answer (scikit-learn's, chosen here): the coef_ of
\* RidgeCV, one weight per column; its predictions; the coef_ of Ridge in
\* estimate_pairwise_features, one coefficient per pair
PredChoices == {100, 900}

\* np.sum(np.abs(pred - Y_test) * W_test) / np.sum(W_test), as <<num, den>>
\* (<<0, 0>>, nan, on an empty test set)
RECURSIVE WeightedAbsSum(_, _, _)
WeightedAbsSum(pred, Yt, Wt) ==
    IF pred = <<>> THEN 0
    ELSE Abs(Head(pred) - Head(Yt)) * Head(Wt) + WeightedAbsSum(Tail(pred), Tail(Yt), Tail(Wt))
SplitError(pred, Yt, Wt) == <<WeightedAbsSum(pred, Yt, Wt), SumSeq(Wt)>>

\* np.mean of a non-empty list of fractions
RECURSIVE FracSum(_)
FracSum(fs) ==
    IF fs = <<>> THEN <<0, 1>>
    ELSE LET rest == FracSum(Tail(fs))
         IN  <<Head(fs)[1] * rest[2] + rest[1] * Head(fs)[2], Head(fs)[2] * rest[2]>>
np_mean(fs) == <<FracSum(fs)[1], FracSum(fs)[2] * Len(fs)>>

\* if i < n_iters - 1; the faulty variant re-estimates in the last round too
ReestimateAlways(i) == i < n_iters
ReestimateDue(i) == i < n_iters - 1

\* n_samples / n_splits (Python 2: the integer quotient)
split_size == n_samples \div n_splits

CVIdle ==
    /\ n_samples = 0 /\ n_splits = 0 /\ split_idx = 0 /\ test_start = 0 /\ test_stop = 0
    /\ X_train_idx = <<>> /\ X_test_idx = <<>> /\ Y_train = <<>> /\ Y_test = <<>>
    /\ W_train = <<>> /\ W_test = <<>> /\ coeff_vec = <<>> /\ iter = 0 /\ coef_ = <<>>
    /\ fit_call = <<>> /\ engine_call = <<>> /\ split_error = <<>> /\ errors = <<>>
    /\ cv_result = <<>> /\ cv_pc = "idle" /\ n_fit = 0 /\ n_reest = 0 /\ folds = <<>>

\* Lines 266-274: cross_validation is entered with n samples and k folds
InitCV ==
    /\ n_samples \in 1..MaxSamples
    /\ n_splits \in 1..MaxSplits
    /\ split_idx = 0 /\ test_start = 0 /\ test_stop = 0
    /\ X_train_idx = <<>> /\ X_test_idx = <<>> /\ Y_train = <<>> /\ Y_test = <<>>
    /\ W_train = <<>> /\ W_test = <<>> /\ coeff_vec = <<>> /\ iter = 0 /\ coef_ = <<>>
    /\ fit_call = <<>> /\ engine_call = <<>> /\ split_error = <<>> /\ errors = <<>>
    /\ cv_result = <<>> /\ cv_pc = "split" /\ n_fit = 0 /\ n_reest = 0 /\ folds = <<>>

\* Lines 277-292: the next fold is cut out, the coefficients start from the
\* reference vector, and the round counter from 0.  folds (history) keeps what
\* each fold was given; n_fit and n_reest (history) count the fold's steps.
CVSplit ==
    /\ UNCHANGED notOfCV
    /\ cv_pc = "split"
    /\ split_idx < n_splits
    /\ LET start == split_idx * split_size
           stop == Min((split_idx + 1) * split_size, n_samples)
           sx == split(X_idx, start, stop)
           sy == split(Y_all, start, stop)
           sw == split(W_all, start, stop)
       IN  /\ coeff_vec' = pmbec_coeff_vec
           /\ test_start' = start
           /\ test_stop' = stop
           /\ X_train_idx' = sx.train /\ X_test_idx' = sx.test
           /\ Y_train' = sy.train /\ Y_test' = sy.test
           /\ W_train' = sw.train /\ W_test' = sw.test
           /\ folds' = Append(folds, [test_start |-> start, test_stop |-> stop,
                                      X_train |-> sx.train, X_test |-> sx.test,
                                      Y_train |-> sy.train, Y_test |-> sy.test,
                                      W_train |-> sw.train, W_test |-> sw.test,
                                      error |-> <<>>])
    /\ iter' = 0 /\ n_fit' = 0 /\ n_reest' = 0
    /\ cv_pc' = "fit"
    /\ UNCHANGED <<n_samples, n_splits, split_idx, coef_, fit_call, engine_call,
                   split_error, errors, cv_result>>

\* Lines 294-325 (FitModel): the features are materialised from coeff_vec, the
\* model is fitted by model.fit(X_train, Y_train, W_train), the test set is
\* predicted and the round's weighted error computed.  fit_call keeps the
\* arguments of model.fit.
CVFit ==
    /\ UNCHANGED notOfCV
    /\ cv_pc = "fit"
    /\ iter < n_iters
    /\ LET X_train == encode_inputs(X_train_idx, coeff_vec)
       IN  fit_call' = << [X |-> X_train, Y |-> Y_train, W |-> W_train] >>
    /\ coef_' \in WeightChoices(Len(X_idx[1]))
    /\ \E pred \in [1..Len(Y_test) -> PredChoices] :
          split_error' = SplitError(pred, Y_test, W_test)
    /\ n_fit' = n_fit + 1
    /\ cv_pc' = "after_fit"
    /\ UNCHANGED <<n_samples, n_splits, split_idx, test_start, test_stop,
                   X_train_idx, X_test_idx, Y_train, Y_test, W_train, W_test,
                   coeff_vec, iter, engine_call, errors, cv_result, n_reest, folds>>

\* The same lines when the fold has no sample to train on, or none to test on:
\* scikit-learn may refuse the empty array, and the run ends with its error
CVFitRaises ==
    /\ UNCHANGED notOfCV
    /\ cv_pc = "fit"
    /\ iter < n_iters
    /\ Y_train = <<>> \/ Y_test = <<>>
    /\ cv_pc' = "raised"
    /\ UNCHANGED <<n_samples, n_splits, split_idx, test_start, test_stop,
                   X_train_idx, X_test_idx, Y_train, Y_test, W_train, W_test,
                   coeff_vec, iter, coef_, fit_call, engine_call, split_error, errors,
                   cv_result, n_fit, n_reest, folds>>

\* The end of a round: i moves on, and after the last round so does split_idx
EndRound ==
    /\ iter' = iter + 1
    /\ IF iter + 1 < n_iters
       THEN /\ cv_pc' = "fit"
            /\ UNCHANGED <<split_idx, folds>>
       ELSE /\ cv_pc' = "split"
            /\ split_idx' = split_idx + 1
            /\ folds' = [folds EXCEPT ![Len(folds)].error = split_error]

\* Lines 327-329 (ReestimateCoefficients): estimate_pairwise_features is called
\* with the weights just fitted; it takes the logarithm of its targets, builds
\* the design matrix (whose two assertions hold here) and fits Ridge, whose
\* coef_ becomes coeff_vec.  engine_call keeps the arguments and the result.
\* On an empty training set X_idx.max() raises ValueError.
CVReestimate ==
    /\ UNCHANGED notOfCV
    /\ cv_pc = "after_fit"
    /\ ReestimateDue(iter)
    /\ IF X_train_idx = <<>>
       THEN /\ cv_pc' = "raised"
            /\ UNCHANGED <<split_idx, folds, iter, coeff_vec, engine_call, n_reest>>
       ELSE LET weights == coef_
            IN  /\ PairwiseAssertsLength(X_train_idx, weights)
                /\ PairwiseAssertsMax(X_train_idx, weights)
                /\ \E out \in VecChoices :
                      /\ engine_call' = << [X_idx |-> X_train_idx, model_weights |-> weights,
                                            Y |-> LogTargets(Y_train), out |-> out] >>
                      /\ coeff_vec' = out
                /\ n_reest' = n_reest + 1
                /\ EndRound
    /\ UNCHANGED <<n_samples, n_splits, test_start, test_stop,
                   X_train_idx, X_test_idx, Y_train, Y_test, W_train, W_test,
                   coef_, fit_call, split_error, errors, cv_result, n_fit>>

\* Line 327, the condition false: the round ends without a re-estimation
CVSkipReestimate ==
    /\ UNCHANGED notOfCV
    /\ cv_pc = "after_fit"
    /\ ~ReestimateDue(iter)
    /\ EndRound
    /\ UNCHANGED <<n_samples, n_splits, test_start, test_stop,
                   X_train_idx, X_test_idx, Y_train, Y_test, W_train, W_test,
                   coeff_vec, coef_, fit_call, engine_call, split_error, errors,
                   cv_result, n_fit, n_reest>>

\* Lines 331-334, after the loop over the folds: split_error is appended to
\* errors, and the mean of errors is returned
CVFinish ==
    /\ UNCHANGED notOfCV
    /\ cv_pc = "split"
    /\ split_idx = n_splits
    /\ errors' = Append(errors, split_error)
    /\ cv_result' = << np_mean(Append(errors, split_error)) >>
    /\ cv_pc' = "returned"
    /\ UNCHANGED <<n_samples, n_splits, split_idx, test_start, test_stop,
                   X_train_idx, X_test_idx, Y_train, Y_test, W_train, W_test,
                   coeff_vec, iter, coef_, fit_call, engine_call, split_error,
                   n_fit, n_reest, folds>>

(***************************************************************************)
(* Specifications                                                          *)
(***************************************************************************)
IndexNext == LookupPair \/ LookupIndex
GenNext == GenFilter \/ GenSkipAllele \/ GenWindow \/ GenReturn
EncNext == CallEncodeInputs \/ CallEncodePairwise
TwoPassNext == TwoPassFit \/ TwoPassPredict
CVNext == CVSplit \/ CVFit \/ CVFitRaises \/ CVReestimate \/ CVSkipReestimate \/ CVFinish

StartIndex == InitIndexQuery /\ GenIdle /\ EncIdle /\ TPIdle /\ CVIdle
StartGenerate == IndexIdle /\ InitGenerate /\ EncIdle /\ TPIdle /\ CVIdle
StartEncodeValid == IndexIdle /\ GenIdle /\ InitEncodeValid /\ TPIdle /\ CVIdle
StartEncodeAny == IndexIdle /\ GenIdle /\ InitEncodeAny /\ TPIdle /\ CVIdle
StartTwoPass == IndexIdle /\ GenIdle /\ EncIdle /\ InitTwoPass /\ CVIdle
StartCV == IndexIdle /\ GenIdle /\ EncIdle /\ TPIdle /\ InitCV

SpecIndex == StartIndex /\ [][IndexNext]_vars
SpecGenerate == StartGenerate /\ [][GenNext]_vars
SpecEncodeValid == StartEncodeValid /\ [][EncNext]_vars
SpecEncodeAny == StartEncodeAny /\ [][EncNext]_vars
SpecTwoPass == StartTwoPass /\ [][TwoPassNext]_vars
SpecCV == StartCV /\ [][CVNext]_vars

Init == StartIndex \/ StartGenerate \/ StartEncodeAny \/ StartTwoPass \/ StartCV
Next ==
    \/ LookupPair \/ LookupIndex
    \/ GenFilter \/ GenSkipAllele \/ GenWindow \/ GenReturn
    \/ CallEncodeInputs \/ CallEncodePairwise
    \/ TwoPassFit \/ TwoPassPredict
    \/ CVSplit \/ CVFit \/ CVFitRaises \/ CVReestimate \/ CVSkipReestimate \/ CVFinish
Spec == Init /\ [][Next]_vars

(***************************************************************************)
(* Properties                                                              *)
(***************************************************************************)
Alphabet == {AMINO_ACID_LETTERS[i] : i \in 1..Len(AMINO_ACID_LETTERS)}

\* The sum of f[k] for k in lo..hi (halving the range keeps the recursion shallow)
RECURSIVE SumOver(_, _, _)
SumOver(f, lo, hi) ==
    IF lo > hi THEN 0
    ELSE IF lo = hi THEN f[lo]
    ELSE LET mid == (lo + hi) \div 2
         IN  SumOver(f, lo, mid) + SumOver(f, mid + 1, hi)

\* C1: the pair index is a total bijection between the 400 ordered pairs over
\* the 20 sorted letters and 0..399: a lookup of two letters of the alphabet
\* never fails, the index found is in 0..399 and is the index of no other pair,
\* the list read at that index gives the pair back, and the indices of all the
\* pairs are exactly 0..399.
C1_PairIndexBijection ==
    /\ q_pc = "KeyError" => ~(q_a \in Alphabet /\ q_b \in Alphabet)
    /\ q_pc \in {"found", "done"} =>
          /\ q_a \in Alphabet /\ q_b \in Alphabet
          /\ q_idx \in 0..399
          /\ \A c \in Alphabet, d \in Alphabet :
                /\ HasPair(c, d)
                /\ <<c, d>> # <<q_a, q_b>> => PairLookup(c, d) # q_idx
    /\ q_pc = "done" => q_back = <<q_a, q_b>>
    /\ q_pc = "done" =>
          /\ Cardinality(Alphabet) = 20
          /\ Len(AMINO_ACID_PAIRS) = 400
          /\ {PairLookup(c, d) : c \in Alphabet, d \in Alphabet} = 0..399

\* C1 witness: a pair of two different letters ('Y', 'A') looked up and read back
C1_Witness == q_pc = "done" /\ q_a = 89 /\ q_b = 65 /\ q_back = <<89, 65>>

\* The row generate_training_data is at, its pseudosequence and its first window
CurrentRow == df_peptides[peptide_idx + 1]
CurrentMhc == mhc_seqs_dict[CurrentRow.Allele]
CurrentWindow == Slice(CurrentRow.Epitope, 0, 9)

\* C2: the index vector the encoder appends to X for a 9-letter window p and a
\* pseudosequence m of length L has length 9 * L, and its entry at i * L + j is
\* the pair index of (p[i], m[j]), for i in 0..8 and j in 0..L-1.
C2_VectorLayout ==
    gen_pc = "NameError" =>
        /\ Len(X) = 1
        /\ LET vec == X[Len(X)]
               L == Len(CurrentMhc)
           IN  /\ Len(CurrentWindow) = 9
               /\ Len(vec) = 9 * L
               /\ \A i \in 0..8, j \in 0..(L - 1) :
                     vec[i * L + j + 1] = PairLookup(CurrentWindow[i + 1], CurrentMhc[j + 1])

\* C2 witness: a vector of 27 entries appended for a peptide of A0201 (L = 3)
C2_Witness ==
    /\ gen_pc = "NameError" /\ Len(X) = 1 /\ Len(X[1]) = 27
    /\ CurrentRow.Allele = A0201

\* The rows of the file the claim C3 is about: at least 9 letters, the allele known
Qualifies(row) == Len(row.Epitope) >= 9 /\ row.Allele \in DOMAIN mhc_seqs_dict
RECURSIVE ExpectedSamples(_)
ExpectedSamples(rows) ==
    IF rows = <<>> THEN 0
    ELSE (IF Qualifies(Head(rows)) THEN Len(Head(rows).Epitope) - 8 ELSE 0)
         + ExpectedSamples(Tail(rows))
\* Files whose rows differ in (allele, epitope), hold only letters of the
\* alphabet and only IC50 values the mask keeps
PlainFile ==
    /\ \A i \in 1..Len(binding_data) :
          /\ binding_data[i].IC50 <= IC50_LIMIT
          /\ \A k \in 1..Len(binding_data[i].Epitope) : binding_data[i].Epitope[k] \in Alphabet
    /\ \A i \in 1..Len(binding_data), j \in 1..Len(binding_data) :
          i # j => <<binding_data[i].Allele, binding_data[i].Epitope>>
                   # <<binding_data[j].Allele, binding_data[j].Epitope>>

\* C3: when generate_training_data ends, every row of n >= 9 letters with a
\* known allele has given n - 8 samples, each of weight 1 / (n - 8): X, Y and W
\* hold that many entries, and W holds n - 8 times the weight <<1, n - 8>> of
\* each such row.
C3_WindowsAndWeights ==
    (gen_pc \in {"returned", "NameError", "KeyError"} /\ PlainFile) =>
        /\ Len(X) = ExpectedSamples(binding_data)
        /\ Len(Y) = Len(X)
        /\ Len(W) = Len(X)
        /\ \A i \in 1..Len(binding_data) :
              Qualifies(binding_data[i]) =>
                 Cardinality({k \in 1..Len(W) : W[k] = <<1, Len(binding_data[i].Epitope) - 8>>})
                    >= Len(binding_data[i].Epitope) - 8

EntriesValid == \A r \in 1..Len(X_pair_indices) : \A c \in 1..Len(X_pair_indices[r]) :
                   X_pair_indices[r][c] \in PairIndices

\* C4: encode_inputs and encode_pairwise_coefficients are adjoint.  For an index
\* matrix with entries in 0..399, a coefficient vector and a weight vector, in
\* every row r: encode_inputs gives coeff[idx[r][c]] at column c, the design
\* matrix holds at bucket k the sum of w[c] over the columns c with
\* idx[r][c] = k, and the sum over c of w[c] * encode_inputs[r][c] equals the
\* sum over k of coeff[k] * design[r][k].
C4_Adjoint ==
    (enc_pc = "returned" /\ pw_pc = "returned" /\ EntriesValid) =>
        \A r \in 1..Len(X_pair_indices) :
            LET d == Len(X_pair_indices[r])
                idx == X_pair_indices[r]
            IN  /\ \A c \in 1..d : X_encoded[r][c] = pairwise_feature_vec[idx[c] + 1]
                /\ \A k \in PairIndices :
                      coeffs[r][k] =
                         SumOver([c \in 1..d |-> IF idx[c] = k THEN model_weights[c] ELSE 0], 1, d)
                /\ SumOver([c \in 1..d |-> model_weights[c] * X_encoded[r][c]], 1, d)
                   = SumOver([k \in PairIndices |-> pairwise_feature_vec[k + 1] * coeffs[r][k]],
                             0, N_AMINO_ACID_PAIRS - 1)

\* C4 witness: both returned for two rows, one with the same index in both columns
C4_Witness ==
    /\ enc_pc = "returned" /\ pw_pc = "returned" /\ EntriesValid
    /\ Len(X_pair_indices) = 2
    /\ X_pair_indices[1] = <<399, 399>>
    /\ X_pair_indices[2] = <<0, 399>>
    /\ coeffs[1][399] = model_weights[1] + model_weights[2]
    /\ coeffs[2][0] = model_weights[1]

\* C5: encode_inputs and encode_pairwise_coefficients fail whenever an entry of
\* the index matrix is outside 0..399 (negative entries too), and
\* encode_pairwise_coefficients fails whenever the weights are not one per
\* column; neither returns a matrix then.
C5_OutOfRangeFails ==
    /\ (enc_pc # "ready" /\ ~EntriesValid) => enc_pc \in {"IndexError", "AssertionError"}
    /\ (pw_pc # "ready" /\ ~EntriesValid) => pw_pc \in {"IndexError", "AssertionError"}
    /\ (pw_pc # "ready" /\ Len(model_weights) # Len(X_pair_indices[1]))
          => pw_pc \in {"IndexError", "AssertionError"}

\* Runs of cross_validation in which every fold has samples to train on and
\* samples to test on
EveryFoldHasData == n_splits >= 2 /\ n_samples >= n_splits

\* C6: in every round, model.fit is given the features materialised from the
\* current coefficient vector, the natural logarithm of the training targets
\* (as estimate_pairwise_features takes it), and the training weights.
C6_FitInLogSpace ==
    (cv_pc = "after_fit" /\ EveryFoldHasData) =>
        /\ fit_call[1].X = encode_inputs(X_train_idx, coeff_vec)
        /\ fit_call[1].Y = LogTargets(Y_train)
        /\ fit_call[1].W = W_train

\* A fold has just ended: the round loop is over and split_idx has moved on
FoldEnded == cv_pc = "split" /\ split_idx > 0

\* C7 as stated: a fold ends after 5 FitModel steps, each followed by a
\* ReestimateCoefficients step, the fifth included.
C7_ReestimateEveryRound ==
    (FoldEnded /\ EveryFoldHasData) => n_fit = n_iters /\ n_reest = n_iters

\* C7 as amended: every fold starts from the reference coefficient vector and
\* runs 5 FitModel steps; each of the first 4 is followed by a
\* ReestimateCoefficients step that is given the weights just fitted and whose
\* output replaces the coefficient vector; the fifth is followed by none, and
\* the fold ends after the fifth FitModel step, with 4 re-estimations made.
C7_FourReestimations ==
    /\ cv_pc = "fit" =>
          /\ iter < n_iters /\ n_fit = iter /\ n_reest = iter
          /\ iter = 0 => coeff_vec = pmbec_coeff_vec
          /\ iter > 0 =>
                /\ engine_call[1].model_weights = coef_
                /\ engine_call[1].X_idx = X_train_idx
                /\ coeff_vec = engine_call[1].out
    /\ cv_pc = "after_fit" => n_fit = iter + 1 /\ n_reest = iter
    /\ FoldEnded => n_fit = n_iters /\ n_reest = n_iters - 1 /\ iter = n_iters

\* C7 witness: a fold ended after 5 fits and 4 re-estimations, the last of which
\* was given the weights <<1, 2>> and replaced the reference vector
C7_Witness ==
    /\ FoldEnded /\ EveryFoldHasData /\ n_fit = 5 /\ n_reest = 4
    /\ engine_call[1].model_weights = <<1, 2>>
    /\ coeff_vec = engine_call[1].out
    /\ coeff_vec # pmbec_coeff_vec

\* ceil(log_b(num / den)) for num >= den >= 1, and floor(log50(y)) of a fraction
RECURSIVE CeilLog(_, _, _)
CeilLog(b, num, den) == IF num <= den THEN 0 ELSE 1 + CeilLog(b, num, den * b)
FloorLog50(y) == IF y[1] >= y[2] THEN FloorLog(50, y[1], y[2]) ELSE -CeilLog(50, y[2], y[1])
TrainedCategories == {Max(0, FloorLog50(tp_Y[i])) : i \in 1..Len(tp_Y)}

\* C8: after fit, a regressor is defined for exactly the categories
\* max(0, floor(log50(Y))) of the training targets, each fitted on the rows of
\* its category; predict writes to each sample the prediction of the regressor
\* of the category the classifier gave that sample, and never meets None.
C8_RegressorPerCategory ==
    /\ tp_pc # "AttributeError"
    /\ tp_pc \in {"fitted", "predicted"} =>
          /\ {c \in 0..(Len(regressors) - 1) : regressors[c + 1] # <<>>} = TrainedCategories
          /\ \A c \in TrainedCategories :
                /\ regressors[c + 1][1].category = c
                /\ regressors[c + 1][1].rows
                      = {i \in 1..Len(tp_Y) : Max(0, FloorLog50(tp_Y[i])) = c}
    /\ tp_pc = "predicted" =>
          /\ Len(combined) = Len(tp_categories)
          /\ \A i \in 1..Len(combined) :
                /\ combined[i] # <<>>
                /\ combined[i][1].category = tp_categories[i]

\* C8 witness: targets of the categories 0 and 1 only (one of them below 1), two
\* regressors, and two samples predicted with different categories
C8_Witness ==
    /\ tp_pc = "predicted"
    /\ tp_Y = << <<1, 100>>, <<120, 1>>, <<7, 1>> >>
    /\ Len(regressors) = 2
    /\ tp_categories = <<1, 0>>
    /\ combined[1][1].category = 1 /\ combined[2][1].category = 0

TestRange(f) == {i \in 0..(n_samples - 1) : folds[f].test_start <= i /\ i < folds[f].test_stop}
Complement(data, f) ==
    LET keep == {i \in 1..Len(data) : (i - 1) \notin TestRange(f)}
    IN  [k \in 1..Cardinality(keep) |->
            data[CHOOSE i \in keep : Cardinality({j \in keep : j < i}) = k - 1]]

\* C9: the k test folds are contiguous, non-empty, pairwise disjoint ranges
\* whose union is all n samples, and the training set of each fold is the
\* complement of its test set, in the original order, for X, Y and W.
C9_FoldsPartition ==
    (cv_pc = "returned" /\ EveryFoldHasData) =>
        /\ Len(folds) = n_splits
        /\ \A f \in 1..Len(folds) :
              /\ folds[f].test_start < folds[f].test_stop
              /\ folds[f].X_test = Slice(X_idx, folds[f].test_start, folds[f].test_stop)
              /\ folds[f].X_train = Complement(X_idx, f)
              /\ folds[f].Y_train = Complement(Y_all, f)
              /\ folds[f].W_train = Complement(W_all, f)
        /\ \A f \in 1..Len(folds), g \in 1..Len(folds) :
              f # g => TestRange(f) \cap TestRange(g) = {}
        /\ UNION {TestRange(f) : f \in 1..Len(folds)} = 0..(n_samples - 1)

\* C10: when cross_validation returns, errors holds one entry per fold, the
\* weighted error of the fold's last round, and the value returned is the mean
\* over all the folds.
C10_ErrorPerFold ==
    (cv_pc = "returned" /\ EveryFoldHasData) =>
        /\ Len(errors) = n_splits
        /\ \A f \in 1..Len(errors) : errors[f] = folds[f].error
        /\ cv_result = << np_mean([f \in 1..Len(folds) |-> folds[f].error]) >>

====
